---- MODULE Spec2Model ----
(***************************************************************************)
(* MultiStepTranslate.py: a three-step translation pipeline.  The driver   *)
(* (main) reads the input file, translate_text issues three dependent      *)
(* completion calls (translate, refine, compare) through make_api_call,    *)
(* the verdict of the third call selects one of the two candidates, and    *)
(* the driver writes it to the output file or reports the failure.         *)
(*                                                                         *)
(* A Python str is modelled as a sequence of one-character strings, so     *)
(* that str.strip() and the `in` substring test are computed character by  *)
(* character.  Two atoms longer than one character stand for things that   *)
(* are not ordinary characters: "<U+D800>" is a lone surrogate code point  *)
(* (a JSON "\ud800" escape decodes to one), and a text produced by a       *)
(* library (str(e) of an OSError, of a requests exception, ...) is the     *)
(* one-atom sequence naming the exception.                                 *)
(***************************************************************************)
EXTENDS Integers, Sequences, FiniteSets, TLC

VARIABLES
    env,                  \* argv, the file system and the installed requests
    pc,                   \* position of main()
    source_text,          \* main: source_text
    initial_translation,  \* translate_text: Candidate A
    refined_translation,  \* translate_text: Candidate B
    best_version,         \* translate_text: the verdict text
    translated_text,      \* main: the value translate_text returned
    calls,                \* the payloads POSTed to API_ENDPOINT, in order
    last_step,            \* the step of translate_text that issued the last call
    response,             \* the HTTP response to the last call
    exc,                  \* the exception propagating to main's handlers
    outfile,              \* the file at args.outfile
    stdout,               \* one element per print() call
    exit_status           \* the process exit status, once exited

vars == <<env, pc, source_text, initial_translation, refined_translation,
          best_version, translated_text, calls, last_step, response, exc,
          outfile, stdout, exit_status>>

----------------------------------------------------------------------------
(* Bounds of the model.                                                    *)

\* longest run of whitespace put before and after a text the endpoint returns
MaxPad == 1

\* largest number of elements of a "choices" array
MaxChoices == 2

----------------------------------------------------------------------------
(* Program constants.                                                      *)

API_ENDPOINT == "http://localhost:5000/v1/completions"

DEFAULT_MODEL == "text-davinci-003"

DEFAULT_TEMPERATURE == "0.7"

DEFAULT_MAX_TOKENS == 1000

----------------------------------------------------------------------------
(* String literals of the source, character by character.                  *)

\* the markers of lines 88 and 90
Version1 ==
    <<"V", "e", "r", "s", "i", "o", "n", " ", "1">>

Version2 ==
    <<"V", "e", "r", "s", "i", "o", "n", " ", "2">>

\* initial_prompt, lines 62-67: the text between the placeholders
InitialHead ==
    <<"\n", "T", "r", "a", "n", "s", "l", "a", "t", "e", " ", "t", "h", "e",
      " ", "f", "o", "l", "l", "o", "w", "i", "n", "g", " ", "t", "e", "x",
      "t", " ", "f", "r", "o", "m", " ">>

InitialTo ==
    <<" ", "t", "o", " ">>

InitialColon ==
    <<":", "\n">>

InitialEnsure ==
    <<"\n", "E", "n", "s", "u", "r", "e", " ", "t", "h", "e", " ", "t", "r",
      "a", "n", "s", "l", "a", "t", "i", "o", "n", " ", "i", "s", " ", "a",
      "c", "c", "u", "r", "a", "t", "e", ",", " ", "f", "l", "u", "e", "n",
      "t", ",", " ", "a", "n", "d", " ", "c", "a", "p", "t", "u", "r", "e",
      "s", " ", "a", "l", "l", " ", "n", "u", "a", "n", "c", "e", "s", " ",
      "o", "f", " ", "t", "h", "e", " ", "o", "r", "i", "g", "i", "n", "a",
      "l", " ", "t", "e", "x", "t", ".", " ", "\n", "P", "r", "o", "v", "i",
      "d", "e", " ", "o", "n", "l", "y", " ", "t", "h", "e", " ", "t", "r",
      "a", "n", "s", "l", "a", "t", "i", "o", "n", " ", "i", "n", " ">>

InitialTail ==
    <<".", "\n">>

\* refine_prompt, lines 71-75
RefineHead ==
    <<"\n", "I", "m", "p", "r", "o", "v", "e", " ", "t", "h", "e", " ", "f",
      "o", "l", "l", "o", "w", "i", "n", "g", " ", "t", "r", "a", "n", "s",
      "l", "a", "t", "i", "o", "n", " ", "f", "o", "r", " ", "a", "c", "c",
      "u", "r", "a", "c", "y", " ", "a", "n", "d", " ", "f", "l", "u", "e",
      "n", "c", "y", ".", " ", "\n", "M", "a", "k", "e", " ", "s", "u", "r",
      "e", " ", "i", "t", " ", "c", "a", "p", "t", "u", "r", "e", "s", " ",
      "t", "h", "e", " ", "o", "r", "i", "g", "i", "n", "a", "l", " ", "m",
      "e", "a", "n", "i", "n", "g", " ", "a", "n", "d", " ", "r", "e", "a",
      "d", "s", " ", "n", "a", "t", "u", "r", "a", "l", "l", "y", " ", "i",
      "n", " ">>

RefineColon ==
    <<":", "\n">>

RefineTail ==
    <<"\n">>

\* compare_prompt, lines 79-84
CompareHead ==
    <<"\n", "B", "e", "t", "w", "e", "e", "n", " ", "t", "h", "e", " ", "t",
      "w", "o", " ", "t", "r", "a", "n", "s", "l", "a", "t", "i", "o", "n",
      "s", " ", "b", "e", "l", "o", "w", ",", " ", "i", "n", "d", "i", "c",
      "a", "t", "e", " ", "w", "h", "i", "c", "h", " ", "i", "s", " ", "b",
      "e", "t", "t", "e", "r", " ", "b", "a", "s", "e", "d", " ", "o", "n",
      " ", "a", "c", "c", "u", "r", "a", "c", "y", ",", " ", "f", "l", "u",
      "e", "n", "c", "y", ",", " ", "\n", "a", "n", "d", " ", "n", "a", "t",
      "u", "r", "a", "l", "n", "e", "s", "s", " ", "i", "n", " ">>

CompareRespond ==
    <<".", " ", "R", "e", "s", "p", "o", "n", "d", " ", "w", "i", "t", "h",
      " ", "'", "V", "e", "r", "s", "i", "o", "n", " ", "1", "'", " ", "o",
      "r", " ", "'", "V", "e", "r", "s", "i", "o", "n", " ", "2", "'", ":",
      "\n">>

CompareLabel1 ==
    <<"V", "e", "r", "s", "i", "o", "n", " ", "1", ":", " ">>

CompareLabel2 ==
    <<"\n", "V", "e", "r", "s", "i", "o", "n", " ", "2", ":", " ">>

CompareTail ==
    <<"\n">>

\* exception messages, lines 46, 49 and 93
EmptyResponseMsg ==
    <<"A", "P", "I", " ", "r", "e", "t", "u", "r", "n", "e", "d", " ", "a",
      "n", " ", "e", "m", "p", "t", "y", " ", "r", "e", "s", "p", "o", "n",
      "s", "e", ".">>

ApiCallFailedMsg ==
    <<"A", "P", "I", " ", "c", "a", "l", "l", " ", "f", "a", "i", "l", "e",
      "d", ":", " ">>

UnexpectedOutputMsg ==
    <<"U", "n", "e", "x", "p", "e", "c", "t", "e", "d", " ", "o", "u", "t",
      "p", "u", "t", " ", "f", "r", "o", "m", " ", "A", "P", "I", " ", "d",
      "u", "r", "i", "n", "g", " ", "c", "o", "m", "p", "a", "r", "i", "s",
      "o", "n", ":", " ">>

\* the diagnostics of main's handlers, lines 117, 120, 123 and 126
FileNotFoundPrefix ==
    <<"E", "r", "r", "o", "r", ":", " ", "F", "i", "l", "e", " ", "n", "o",
      "t", " ", "f", "o", "u", "n", "d", " ", "-", " ">>

RuntimeErrorPrefix ==
    <<"E", "r", "r", "o", "r", " ", "d", "u", "r", "i", "n", "g", " ", "t",
      "r", "a", "n", "s", "l", "a", "t", "i", "o", "n", ":", " ">>

ValueErrorPrefix ==
    <<"T", "r", "a", "n", "s", "l", "a", "t", "i", "o", "n", " ", "e", "r",
      "r", "o", "r", ":", " ">>

UnexpectedPrefix ==
    <<"U", "n", "e", "x", "p", "e", "c", "t", "e", "d", " ", "e", "r", "r",
      "o", "r", ":", " ">>

----------------------------------------------------------------------------
(* Python str operations.                                                  *)

\* The characters str.strip() removes (those with str.isspace()) that occur
\* in this model's texts.
Whitespace == {" ", "\t", "\n", "\r", "\f"}

isspace(c) == c \in Whitespace

RECURSIVE lstrip(_)
lstrip(s) ==
    IF s = << >> \/ ~isspace(Head(s)) THEN s ELSE lstrip(Tail(s))

RECURSIVE rstrip(_)
rstrip(s) ==
    IF s = << >> \/ ~isspace(s[Len(s)]) THEN s
    ELSE rstrip(SubSeq(s, 1, Len(s) - 1))

\* strip() mistaken for lstrip(): trailing whitespace is kept
strip_LeadingOnly(s) == lstrip(s)

\* str.strip(): leading and trailing whitespace removed
strip(s) == rstrip(lstrip(s))

\* `needle in hay` for two str
Contains(needle, hay) ==
    \E i \in 0..(Len(hay) - Len(needle)) :
        SubSeq(hay, i + 1, i + Len(needle)) = needle

\* A lone surrogate: json decodes "\ud800" to it, and the utf-8 codec
\* refuses to encode it.
Surrogate == "<U+D800>"

\* whether str.encode("utf-8") succeeds
Encodable(s) == \A i \in 1..Len(s) : s[i] # Surrogate

\* The value of a variable that has not been assigned; no str equals it.
Unset == <<"<unset>">>

----------------------------------------------------------------------------
(* Exceptions.                                                             *)

Exception(type, msg) == [type |-> type, msg |-> msg]

NoException == Exception("None", << >>)

\* str(e) of an exception a library raised: one atom naming it
LibraryText(type) == <<type>>

\* The classes an exception type derives from (Python's built-in hierarchy;
\* HTTPError, ConnectionError and requests.JSONDecodeError are requests'
\* classes, all under requests.exceptions.RequestException).
Bases(type) ==
    CASE type = "FileNotFoundError"  -> {"OSError", "Exception"}
      [] type = "PermissionError"    -> {"OSError", "Exception"}
      [] type = "UnicodeDecodeError" -> {"UnicodeError", "ValueError", "Exception"}
      [] type = "UnicodeEncodeError" -> {"UnicodeError", "ValueError", "Exception"}
      [] type = "json.JSONDecodeError" -> {"ValueError", "Exception"}
      [] type = "requests.JSONDecodeError" ->
            {"RequestException", "OSError", "ValueError", "Exception"}
      [] type = "IndexError"         -> {"LookupError", "Exception"}
      [] type = "HTTPError"          -> {"RequestException", "OSError", "Exception"}
      [] type = "ConnectionError"    -> {"RequestException", "OSError", "Exception"}
      [] OTHER                       -> {"Exception"}

\* isinstance(e, cls): what an `except cls` clause tests
IsInstance(e, cls) == e.type = cls \/ cls \in Bases(e.type)

----------------------------------------------------------------------------
(* The completion endpoint's answers.                                      *)

\* One element of the "choices" array: a JSON object, with or without a
\* "text" member (a string or null), or a JSON value that is no object.
Choice(kind, text, value) == [kind |-> kind, text |-> text, value |-> value]

TextChoice(value) == Choice("object", "str", value)

\* What requests.post meets: a transport failure, or an HTTP response with
\* a status and a body; the body is no JSON, a JSON array, or a JSON object
\* whose "choices" member is absent, null or an array.
Response(transport, status, json, choices, list) ==
    [transport |-> transport, status |-> status, json |-> json,
     choices |-> choices, list |-> list]

TransportError == Response("error", 0, "invalid", "absent", << >>)

\* the value of `response` before the first call
NoResponse == Response("none", 0, "invalid", "absent", << >>)

Completion(status, list) == Response("ok", status, "object", "list", list)

\* The exception response.json() raises on a body that is no JSON: requests
\* 2.27 and later raise requests.exceptions.JSONDecodeError (a
\* RequestException), earlier versions the json module's (a ValueError).
\* The repository pins no version.
RequestsVersions == {"2.27+", "older"}

JSONDecodeErrorType(requests) ==
    IF requests = "2.27+" THEN "requests.JSONDecodeError"
    ELSE "json.JSONDecodeError"

----------------------------------------------------------------------------
(* make_api_call, lines 17-49.                                             *)

\* lines 33-38, and the URL line 41 POSTs it to
payload(prompt) ==
    [url |-> API_ENDPOINT,
     model |-> DEFAULT_MODEL,
     prompt |-> strip(prompt),
     max_tokens |-> DEFAULT_MAX_TOKENS,
     temperature |-> DEFAULT_TEMPERATURE]

\* line 42, Response.raise_for_status(): HTTPError on a 4xx or 5xx status
raise_for_status(resp) == 400 <= resp.status /\ resp.status < 600

Return(value) == [raised |-> FALSE, value |-> value, exc |-> NoException]

Raise(e) == [raised |-> TRUE, value |-> Unset, exc |-> e]

\* line 49: a RequestException leaves as a RuntimeError
ApiCallFailed(type) ==
    Raise(Exception("RuntimeError", ApiCallFailedMsg \o LibraryText(type)))

\* CheckText without the test of line 45: an empty text is returned
CheckText_AcceptsEmpty(value) == Return(strip(value))

\* lines 44-47, given the "text" the first choice yielded
CheckText(value) ==
    LET text == strip(value)
    IN  IF text = << >>
        THEN Raise(Exception("RuntimeError", EmptyResponseMsg))
        ELSE Return(text)

\* line 44, .get("text", "").strip() on the first choice
FirstChoiceText(first) ==
    IF first.kind # "object"
    THEN Raise(Exception("AttributeError", LibraryText("AttributeError")))
    ELSE CASE first.text = "absent" -> CheckText(<< >>)
           [] first.text = "null" ->
                Raise(Exception("AttributeError", LibraryText("AttributeError")))
           [] OTHER -> CheckText(first.value)

\* line 44, json_response.get("choices", [{}])[0]
FirstChoice(resp) ==
    CASE resp.json = "array" ->
            Raise(Exception("AttributeError", LibraryText("AttributeError")))
      [] resp.json = "object" /\ resp.choices = "absent" ->
            FirstChoiceText(Choice("object", "absent", << >>))
      [] resp.json = "object" /\ resp.choices = "null" ->
            Raise(Exception("TypeError", LibraryText("TypeError")))
      [] resp.json = "object" /\ resp.choices = "list" /\ resp.list = << >> ->
            Raise(Exception("IndexError", LibraryText("IndexError")))
      [] OTHER -> FirstChoiceText(resp.list[1])

\* lines 41-49: what the call returns or raises when answered by resp
Answer(resp, requests) ==
    IF resp.transport = "error" THEN ApiCallFailed("ConnectionError")
    ELSE IF raise_for_status(resp) THEN ApiCallFailed("HTTPError")
    ELSE IF resp.json = "invalid"
         THEN IF IsInstance(Exception(JSONDecodeErrorType(requests), << >>),
                            "RequestException")
              THEN ApiCallFailed(JSONDecodeErrorType(requests))
              ELSE Raise(Exception(JSONDecodeErrorType(requests),
                                   LibraryText(JSONDecodeErrorType(requests))))
    ELSE FirstChoice(resp)

\* lines 33-49: one call, the request it sends and its outcome
make_api_call(prompt, resp, requests) ==
    [request |-> payload(prompt), result |-> Answer(resp, requests)]

----------------------------------------------------------------------------
(* translate_text, lines 51-93.                                            *)

\* lines 62-67
initial_prompt(text, source_language, target_language) ==
    InitialHead \o source_language \o InitialTo \o target_language
        \o InitialColon \o text \o InitialEnsure \o target_language
        \o InitialTail

\* lines 71-75
refine_prompt(initial, target_language) ==
    RefineHead \o target_language \o RefineColon \o initial \o RefineTail

\* compare_prompt with the two candidates under each other's label
compare_prompt_Swapped(initial, refined, target_language) ==
    CompareHead \o target_language \o CompareRespond
        \o CompareLabel1 \o refined \o CompareLabel2 \o initial \o CompareTail

\* lines 79-84
compare_prompt(initial, refined, target_language) ==
    CompareHead \o target_language \o CompareRespond
        \o CompareLabel1 \o initial \o CompareLabel2 \o refined \o CompareTail

\* decide with the two tests in the other order: "Version 2" wins a tie
decide_Version2First(initial, refined, best) ==
    IF Contains(Version2, best) THEN Return(refined)
    ELSE IF Contains(Version1, best) THEN Return(initial)
    ELSE Raise(Exception("ValueError", UnexpectedOutputMsg \o best))

\* decide with the final else dropped: no marker falls back to Candidate B
decide_FallsBack(initial, refined, best) ==
    IF Contains(Version1, best) THEN Return(initial) ELSE Return(refined)

\* lines 88-93: the candidate the verdict selects, or the ValueError
decide(initial, refined, best) ==
    IF Contains(Version1, best) THEN Return(initial)
    ELSE IF Contains(Version2, best) THEN Return(refined)
    ELSE Raise(Exception("ValueError", UnexpectedOutputMsg \o best))

----------------------------------------------------------------------------
(* The inputs of a run: argv, the files, the endpoint's answers.           *)

English ==
    <<"E", "n", "g", "l", "i", "s", "h">>

French ==
    <<"F", "r", "e", "n", "c", "h">>

HelloWorld ==
    <<"H", "e", "l", "l", "o", " ", "w", "o", "r", "l", "d">>

PaddedSource ==
    <<" ", "G", "o", "o", "d", "\t", "d", "a", "y", " ", "\n">>

Bonjour ==
    <<"B", "o", "n", "j", "o", "u", "r", " ", "l", "e", " ", "m", "o", "n",
      "d", "e">>

BothLabels ==
    <<"V", "e", "r", "s", "i", "o", "n", " ", "2", ",", " ", "n", "o", "t",
      " ", "V", "e", "r", "s", "i", "o", "n", " ", "1">>

NoLabel ==
    <<"v", "e", "r", "s", "i", "o", "n", " ", " ", "1", "\n", "o", "r", " ",
      "2">>

OldContent ==
    <<"o", "l", "d">>

\* a candidate that ends in a lone surrogate
Salut == <<"S", "a", "l", "u", "t", " ", Surrogate>>

\* whitespace of every kind strip() removes, around a text
Wrapped == <<"\r", "\t", "O", "K", " ", "\f", "\n">>

PadChars == {" "}

\* the runs of whitespace of length 0..MaxPad
Pads == UNION {[1..n -> PadChars] : n \in 0..MaxPad}

Cores == {<< >>, Bonjour, Version1, Version2, BothLabels, NoLabel, Salut}

\* the "text" members the endpoint returns
Texts == {l \o c \o r : l \in Pads, c \in Cores, r \in Pads} \cup {Wrapped}

\* n further choices after the first one
MoreChoices(n) == [i \in 1..n |-> TextChoice(Version1)]

Responses ==
    {TransportError}
    \cup {Completion(200, <<TextChoice(t)>>) : t \in Texts}
    \cup {Completion(200, <<TextChoice(NoLabel)>> \o MoreChoices(n)) :
            n \in 1..(MaxChoices - 1)}
    \cup {Completion(st, <<TextChoice(t)>>) :
            st \in {201, 304, 404, 500}, t \in {Bonjour, Version2}}
    \cup {Response("ok", 200, "invalid", "absent", << >>),
          Response("ok", 200, "array", "absent", << >>),
          Response("ok", 200, "object", "absent", << >>),
          Response("ok", 200, "object", "null", << >>),
          Completion(200, << >>),
          Completion(200, <<Choice("string", "absent", << >>)>>),
          Completion(200, <<Choice("object", "absent", << >>)>>),
          Completion(200, <<Choice("object", "null", << >>)>>)}

\* the file at args.infile: absent, unreadable, not UTF-8, or a text
File(kind, text) == [kind |-> kind, text |-> text]

Infiles ==
    {File("missing", << >>), File("denied", << >>),
     File("undecodable", << >>)}
    \cup {File("text", t) : t \in {HelloWorld, PaddedSource}}

\* the file at args.outfile before the run, and whether open(..., "w")
\* can create it: its directory may be absent or not writable
Absent == [exists |-> FALSE, content |-> << >>]

Existing(content) == [exists |-> TRUE, content |-> content]

Outfiles ==
    {[dir |-> "ok", before |-> Absent],
     [dir |-> "ok", before |-> Existing(OldContent)],
     [dir |-> "missing", before |-> Absent],
     [dir |-> "denied", before |-> Existing(OldContent)]}

Envs ==
    [infile : Infiles, out : Outfiles, source_language : {English},
     target_language : {French}, requests : RequestsVersions]

----------------------------------------------------------------------------
(* main, lines 95-127, from the return of parse_args.                      *)

Init ==
    /\ env \in Envs
    /\ pc = "read"
    /\ source_text = Unset
    /\ initial_translation = Unset
    /\ refined_translation = Unset
    /\ best_version = Unset
    /\ translated_text = Unset
    /\ calls = << >>
    /\ last_step = 0
    /\ response = NoResponse
    /\ exc = NoException
    /\ outfile = env.out.before
    /\ stdout = << >>
    /\ exit_status = -1

\* lines 106-107: open(args.infile, "r", encoding="utf-8") and read()
OpenInfile(file) ==
    CASE file.kind = "missing" ->
            Raise(Exception("FileNotFoundError", LibraryText("FileNotFoundError")))
      [] file.kind = "denied" ->
            Raise(Exception("PermissionError", LibraryText("PermissionError")))
      [] file.kind = "undecodable" ->
            Raise(Exception("UnicodeDecodeError", LibraryText("UnicodeDecodeError")))
      [] OTHER -> Return(file.text)

ReadInput ==
    /\ pc = "read"
    /\ LET r == OpenInfile(env.infile)
       IN  IF r.raised
           THEN /\ exc' = r.exc
                /\ pc' = "except"
                /\ UNCHANGED source_text
           ELSE /\ source_text' = r.value
                /\ pc' = "step1"
                /\ UNCHANGED exc
    /\ UNCHANGED <<env, initial_translation, refined_translation, best_version,
                   translated_text, calls, last_step, response, outfile,
                   stdout, exit_status>>

\* lines 62-68: Step 1, initial translation
InitialTranslation ==
    /\ pc = "step1"
    /\ \E resp \in Responses :
         LET c == make_api_call(
                      initial_prompt(source_text, env.source_language,
                                     env.target_language),
                      resp, env.requests)
         IN  /\ calls' = Append(calls, c.request)
             /\ response' = resp
             /\ exc' = c.result.exc
             /\ initial_translation' = c.result.value
             /\ pc' = IF c.result.raised THEN "except" ELSE "step2"
    /\ last_step' = 1
    /\ UNCHANGED <<env, source_text, refined_translation, best_version,
                   translated_text, outfile, stdout, exit_status>>

\* lines 71-76: Step 2, refinement
RefineTranslation ==
    /\ pc = "step2"
    /\ \E resp \in Responses :
         LET c == make_api_call(
                      refine_prompt(initial_translation, env.target_language),
                      resp, env.requests)
         IN  /\ calls' = Append(calls, c.request)
             /\ response' = resp
             /\ exc' = c.result.exc
             /\ refined_translation' = c.result.value
             /\ pc' = IF c.result.raised THEN "except" ELSE "step3"
    /\ last_step' = 2
    /\ UNCHANGED <<env, source_text, initial_translation, best_version,
                   translated_text, outfile, stdout, exit_status>>

\* lines 79-85: Step 3, comparison
CompareTranslations ==
    /\ pc = "step3"
    /\ \E resp \in Responses :
         LET c == make_api_call(
                      compare_prompt(initial_translation, refined_translation,
                                     env.target_language),
                      resp, env.requests)
         IN  /\ calls' = Append(calls, c.request)
             /\ response' = resp
             /\ exc' = c.result.exc
             /\ best_version' = c.result.value
             /\ pc' = IF c.result.raised THEN "except" ELSE "decide"
    /\ last_step' = 3
    /\ UNCHANGED <<env, source_text, initial_translation, refined_translation,
                   translated_text, outfile, stdout, exit_status>>

\* lines 88-93 and the assignment of line 109
DecideBest ==
    /\ pc = "decide"
    /\ LET r == decide(initial_translation, refined_translation, best_version)
       IN  /\ translated_text' = r.value
           /\ exc' = r.exc
           /\ pc' = IF r.raised THEN "except" ELSE "write"
    /\ UNCHANGED <<env, source_text, initial_translation, refined_translation,
                   best_version, calls, last_step, response, outfile, stdout,
                   exit_status>>

\* the write of line 114 mistaken for a print: a newline follows the text
OpenOutfile_AddsNewline(out, text) ==
    IF out.dir = "ok" /\ Encodable(text)
    THEN [file |-> Existing(text \o <<"\n">>), exc |-> NoException]
    ELSE [file |-> out.before, exc |-> Exception("OSError", LibraryText("OSError"))]

\* lines 113-114: open(args.outfile, "w", encoding="utf-8") creates or
\* truncates the file unless its directory is absent or not writable; the
\* write then encodes the text, which fails on a lone surrogate.
OpenOutfile(out, text) ==
    CASE out.dir = "missing" ->
            [file |-> out.before,
             exc |-> Exception("FileNotFoundError",
                               LibraryText("FileNotFoundError"))]
      [] out.dir = "denied" ->
            [file |-> out.before,
             exc |-> Exception("PermissionError",
                               LibraryText("PermissionError"))]
      [] out.dir = "ok" /\ ~Encodable(text) ->
            [file |-> Existing(<< >>),
             exc |-> Exception("UnicodeEncodeError",
                               LibraryText("UnicodeEncodeError"))]
      [] OTHER -> [file |-> Existing(text), exc |-> NoException]

WriteOutput ==
    /\ pc = "write"
    /\ LET w == OpenOutfile(env.out, translated_text)
       IN  /\ outfile' = w.file
           /\ exc' = w.exc
           /\ pc' = IF w.exc # NoException THEN "except" ELSE "return"
    /\ UNCHANGED <<env, source_text, initial_translation, refined_translation,
                   best_version, translated_text, calls, last_step, response,
                   stdout, exit_status>>

\* main returns and the interpreter exits with status 0
ReturnFromMain ==
    /\ pc = "return"
    /\ pc' = "exited"
    /\ exit_status' = 0
    /\ UNCHANGED <<env, source_text, initial_translation, refined_translation,
                   best_version, translated_text, calls, last_step, response,
                   exc, outfile, stdout>>

\* print(f"<prefix>{e}") and exit(1), the body of every handler
Diagnose(prefix) ==
    /\ stdout' = Append(stdout, prefix \o exc.msg)
    /\ exit_status' = 1
    /\ pc' = "exited"
    /\ UNCHANGED <<env, source_text, initial_translation, refined_translation,
                   best_version, translated_text, calls, last_step, response,
                   exc, outfile>>

\* lines 116-118
ExceptFileNotFoundError ==
    /\ pc = "except"
    /\ IsInstance(exc, "FileNotFoundError")
    /\ Diagnose(FileNotFoundPrefix)

\* lines 119-121, reached when the clause above does not match
ExceptRuntimeError ==
    /\ pc = "except"
    /\ ~IsInstance(exc, "FileNotFoundError")
    /\ IsInstance(exc, "RuntimeError")
    /\ Diagnose(RuntimeErrorPrefix)

\* lines 122-124
ExceptValueError ==
    /\ pc = "except"
    /\ ~IsInstance(exc, "FileNotFoundError")
    /\ ~IsInstance(exc, "RuntimeError")
    /\ IsInstance(exc, "ValueError")
    /\ Diagnose(ValueErrorPrefix)

\* lines 125-127
ExceptException ==
    /\ pc = "except"
    /\ ~IsInstance(exc, "FileNotFoundError")
    /\ ~IsInstance(exc, "RuntimeError")
    /\ ~IsInstance(exc, "ValueError")
    /\ IsInstance(exc, "Exception")
    /\ Diagnose(UnexpectedPrefix)

Next ==
    \/ ReadInput
    \/ InitialTranslation
    \/ RefineTranslation
    \/ CompareTranslations
    \/ DecideBest
    \/ WriteOutput
    \/ ReturnFromMain
    \/ ExceptFileNotFoundError
    \/ ExceptRuntimeError
    \/ ExceptValueError
    \/ ExceptException

Spec == Init /\ [][Next]_vars

----------------------------------------------------------------------------
(* Vocabulary of the properties.                                           *)

StartsWith(s, prefix) ==
    Len(s) >= Len(prefix) /\ SubSeq(s, 1, Len(prefix)) = prefix

AllWhitespace(s) == \A i \in 1..Len(s) : s[i] \in Whitespace

\* t has no leading and no trailing whitespace
Clean(t) ==
    t = << >> \/ (t[1] \notin Whitespace /\ t[Len(t)] \notin Whitespace)

\* t is raw without its leading and trailing whitespace: raw is whitespace,
\* then t unchanged, then whitespace
Trimmed(t, raw) ==
    /\ Clean(t)
    /\ \E i \in 0..(Len(raw) - Len(t)) :
         /\ SubSeq(raw, i + 1, i + Len(t)) = t
         /\ AllWhitespace(SubSeq(raw, 1, i))
         /\ AllWhitespace(SubSeq(raw, i + Len(t) + 1, Len(raw)))

\* the "text" of the first choice of a response a call returned a text from
FirstText(resp) == resp.list[1].value

\* translate_text has decided: the verdict was returned and lines 88-93 ran
Decided == best_version # Unset /\ pc # "decide"

HasVersion1 == Contains(Version1, best_version)

HasVersion2 == Contains(Version2, best_version)

Failed == pc \in {"except", "exited"} /\ exc # NoException

----------------------------------------------------------------------------
(* The properties.                                                         *)

\* C1: when all three calls succeeded, a verdict containing "Version 1"
\* makes translate_text return exactly Candidate A, also when it contains
\* "Version 2" as well; otherwise a verdict containing "Version 2" makes it
\* return exactly Candidate B; nothing else is ever returned.
C1_SelectionPolicy ==
    /\ Decided /\ HasVersion1 => translated_text = initial_translation
    /\ Decided /\ ~HasVersion1 /\ HasVersion2 =>
            translated_text = refined_translation
    /\ translated_text # Unset =>
            /\ Decided
            /\ translated_text \in {initial_translation, refined_translation}
            /\ initial_translation # Unset /\ refined_translation # Unset

\* the verdict names both versions, "Version 2" first, and Candidate A,
\* which differs from Candidate B, is returned
C1_Witness ==
    /\ best_version = BothLabels
    /\ translated_text = Bonjour
    /\ initial_translation = Bonjour
    /\ refined_translation = Version2

\* C3: when all three calls succeeded and the verdict contains neither
\* marker, translate_text returns nothing and raises ValueError, whose
\* message ends with the verdict exactly as the third call returned it.
C3_MalformedVerdict ==
    Decided /\ ~HasVersion1 /\ ~HasVersion2 =>
        /\ translated_text = Unset
        /\ Failed
        /\ exc.type = "ValueError"
        /\ exc.msg = UnexpectedOutputMsg \o best_version
        /\ Trimmed(best_version, FirstText(response))

C3_Witness ==
    /\ pc = "except"
    /\ exc.type = "ValueError"
    /\ best_version = NoLabel
    /\ FirstText(response) = <<" ">> \o NoLabel

\* C8: every text a call returns (Candidate A, Candidate B, the verdict, the
\* value translate_text returns) is non-empty, has no leading or trailing
\* whitespace and is otherwise the first choice's text unchanged; every
\* prompt sent is the constructed prompt without its leading and trailing
\* whitespace, otherwise unchanged.
C8_TrimmedTexts ==
    /\ \A t \in {initial_translation, refined_translation, best_version,
                 translated_text} :
            t # Unset => t # << >> /\ Clean(t)
    /\ pc = "step2" => Trimmed(initial_translation, FirstText(response))
    /\ pc = "step3" => Trimmed(refined_translation, FirstText(response))
    /\ pc = "decide" => Trimmed(best_version, FirstText(response))
    /\ Len(calls) >= 1 =>
            Trimmed(calls[1].prompt,
                    initial_prompt(source_text, env.source_language,
                                   env.target_language))
    /\ Len(calls) >= 2 =>
            Trimmed(calls[2].prompt,
                    refine_prompt(initial_translation, env.target_language))
    /\ Len(calls) >= 3 =>
            Trimmed(calls[3].prompt,
                    compare_prompt(initial_translation, refined_translation,
                                   env.target_language))

\* the second call returned "OK" from a text wrapped in whitespace of every
\* kind, after a source text with whitespace of its own was sent
C8_Witness ==
    /\ pc = "step3"
    /\ FirstText(response) = Wrapped
    /\ refined_translation = <<"O", "K">>
    /\ source_text = PaddedSource
    /\ Len(calls) = 2

\* C9: the calls are issued in the order translate, refine, compare, each
\* after the previous one returned a text, one call per step and three on
\* success; the refine prompt embeds Candidate A, and the compare prompt
\* shows Candidate A after "Version 1: " and Candidate B after "Version 2: ".
C9_CallOrder ==
    /\ Len(calls) = last_step /\ Len(calls) <= 3
    /\ Len(calls) >= 1 =>
            /\ source_text # Unset
            /\ StartsWith(calls[1].prompt, strip(InitialHead))
            /\ Contains(source_text, calls[1].prompt)
    /\ Len(calls) >= 2 =>
            /\ initial_translation # Unset
            /\ StartsWith(calls[2].prompt, strip(RefineHead))
            /\ Contains(<<":", "\n">> \o initial_translation, calls[2].prompt)
    /\ Len(calls) >= 3 =>
            /\ refined_translation # Unset
            /\ StartsWith(calls[3].prompt, strip(CompareHead))
            /\ Contains(<<"\n">> \o Version1 \o <<":", " ">>
                            \o initial_translation
                            \o <<"\n">> \o Version2 \o <<":", " ">>
                            \o refined_translation,
                        calls[3].prompt)
    /\ pc \in {"step2", "step3"} => Len(calls) = (IF pc = "step2" THEN 1 ELSE 2)
    /\ translated_text # Unset \/ best_version # Unset => Len(calls) = 3

\* a successful run: three calls, two different candidates
C9_Witness ==
    /\ exit_status = 0
    /\ Len(calls) = 3
    /\ initial_translation = Bonjour
    /\ refined_translation = Salut

\* The last call failed the way C2 names: a transport failure, a status
\* outside 2xx, or a first-choice text that is empty after trimming.
Is2xx(resp) == 200 <= resp.status /\ resp.status < 300

Is4xxOr5xx(resp) == 400 <= resp.status /\ resp.status < 600

HasFirstText(resp) ==
    /\ resp.transport = "ok" /\ resp.json = "object" /\ resp.choices = "list"
    /\ resp.list # << >>
    /\ resp.list[1].kind = "object" /\ resp.list[1].text = "str"

EmptyAfterTrimming(resp) ==
    HasFirstText(resp) /\ AllWhitespace(FirstText(resp))

\* What C2 concludes of a failed call at step last_step: RuntimeError, no
\* candidate returned, no output, and as many calls issued as steps begun.
AbortedByCompletionFailure ==
    /\ Failed
    /\ exc.type = "RuntimeError"
    /\ translated_text = Unset
    /\ outfile = env.out.before
    /\ Len(calls) = last_step

C4_SingleFailureKind ==
    /\ last_step >= 1 /\ ( \/ response.transport = "error"
                           \/ ~Is2xx(response)
                           \/ response.json # "object"
                           \/ response.choices # "list"
                           \/ response.list = << >>
                           \/ ~HasFirstText(response)
                           \/ EmptyAfterTrimming(response) )
        => /\ Failed
           /\ exc.type = "RuntimeError"
           /\ pc = "exited" => StartsWith(stdout[1], RuntimeErrorPrefix)
    /\ last_step >= 1 /\ Failed /\ best_version = Unset =>
           exc.type = "RuntimeError"

\* C5: a run that ends by reporting "Error: File not found" has issued no
\* completion call.
C5_NoCallsWhenFileNotFound ==
    pc = "exited" /\ exit_status = 1
        /\ StartsWith(stdout[1], FileNotFoundPrefix)
        => Len(calls) = 0

\* C6: the output file differs from what it was before the run only after
\* the input was read, the three calls succeeded and the verdict selected a
\* candidate; a run that fails before that leaves it as it was; and when
\* the write completes the file holds exactly the returned candidate.
C6_OutputWrittenLast ==
    /\ outfile # env.out.before =>
            /\ source_text # Unset
            /\ Len(calls) = 3
            /\ Decided
            /\ translated_text # Unset
            /\ pc \in {"return", "except", "exited"}
    /\ Failed /\ translated_text = Unset => outfile = env.out.before
    /\ pc \in {"read", "step1", "step2", "step3", "decide", "write"} =>
            outfile = env.out.before
    /\ pc \in {"return", "exited"} /\ exc = NoException =>
            /\ outfile = Existing(translated_text)
            /\ translated_text \in {initial_translation, refined_translation}

\* a successful run that replaced an existing output file by Candidate B
C6_Witness ==
    /\ pc = "exited"
    /\ exit_status = 0
    /\ env.out.before = Existing(OldContent)
    /\ translated_text = Version2
    /\ initial_translation = Bonjour
    /\ outfile = Existing(Version2)

\* the category C7 puts a failed run in, by what failed
CategoryPrefix ==
    IF exc.type = "FileNotFoundError" THEN FileNotFoundPrefix
    ELSE IF exc.type = "RuntimeError" THEN RuntimeErrorPrefix
    ELSE IF Decided /\ translated_text = Unset /\ ~HasVersion1 /\ ~HasVersion2
         THEN ValueErrorPrefix
    ELSE UnexpectedPrefix

\* C7: a run ends with status 0 exactly when the input was read, a
\* candidate was returned and the output write completed; every failure
\* ends with status 1 after one diagnostic, whose prefix is that of its
\* category: "Error: File not found" for a missing file, "Error during
\* translation" for a completion failure, "Translation error" for a
\* malformed verdict, "Unexpected error" for any other exception.
C7_ExitStatusAndDiagnostic ==
    pc = "exited" =>
        /\ exit_status = 0 <=>
                /\ source_text # Unset
                /\ translated_text # Unset
                /\ outfile = Existing(translated_text)
                /\ exc = NoException
        /\ exit_status = 0 => stdout = << >>
        /\ exit_status # 0 =>
                /\ exit_status = 1
                /\ Len(stdout) = 1
                /\ StartsWith(stdout[1], CategoryPrefix)

\* C10: "Translation error" is reported only when the input was read, the
\* three calls succeeded and the verdict contains neither marker.
C10_TranslationErrorOnlyForVerdict ==
    pc = "exited" /\ exit_status = 1
        /\ StartsWith(stdout[1], ValueErrorPrefix)
        => /\ source_text # Unset
           /\ Len(calls) = 3
           /\ Decided
           /\ ~HasVersion1 /\ ~HasVersion2

====
